---- MODULE Spec2Model ----
(***************************************************************************)
(* A model of releng/devkit.py: the header amalgamation (generate_header,  *)
(* ingest_header), the archive combination (generate_library_unix,         *)
(* generate_library_windows, resolve_library_paths), the flag trimming     *)
(* (trim_flags) and the orchestration (generate_devkit).                   *)
(***************************************************************************)
EXTENDS Integers, Sequences, FiniteSets, TLC

VARIABLES
    \* ---- generate_header / ingest_header
    hpc,            \* "start" | "ingest" | "done"
    files,          \* header index -> the lines read from that file
    opens,          \* header index -> how many times open(header) was called
    used,           \* lines handed out to files so far (bounds the inputs)
    stack,          \* the recursion of ingest_header: frames [header, pos]
    processed,      \* processed_header_files
    result,         \* devkit_header_lines
    \* ---- generate_library_unix / generate_library_windows
    lpc,            \* the position in generate_library
    system,         \* platform.system(): "Windows" or another system
    library_flags,  \* the link flags pkg-config printed
    existing,       \* the archive files that exist (os.path.exists)
    library_paths,  \* the archives to combine, in the order of the loop
    extra_flags,    \* the flags handed back beside the archive
    lib_idx,        \* the archive the loop is at
    pending,        \* the objects of that archive still to be taken
    archives,       \* the objects each archive read so far held
    object_names,   \* the names claimed in combined_dir
    combined,       \* the files of combined_dir: [name, src, orig]
    dirs,           \* the temporary directories that exist
    \* ---- trim_flags
    fpc,            \* "start" | "returned" | "raised"
    cflags,         \* cflags.split(" ")
    ldflags,        \* ldflags.split(" ")
    out_cflags,     \* the tokens of the compile flags returned
    out_ldflags,    \* the tokens of the link flags returned
    \* ---- __main__ / generate_devkit
    kpc,            \* the position in __main__ and generate_devkit
    argc,           \* len(sys.argv)
    kit,            \* sys.argv[1]
    host_system,    \* platform.system()
    outdir,         \* whether the output directory exists
    umbrella_found, \* os.path.exists(umbrella_header_path)
    generated,      \* the artifacts generated so far
    written         \* the files written to the output directory

hvars == <<hpc, files, opens, used, stack, processed, result>>

lvars == <<lpc, system, library_flags, existing, library_paths, extra_flags,
           lib_idx, pending, archives, object_names, combined, dirs>>

fvars == <<fpc, cflags, ldflags, out_cflags, out_ldflags>>

kvars == <<kpc, argc, kit, host_system, outdir, umbrella_found, generated, written>>

vars == <<hvars, lvars, fvars, kvars>>

\* What the steps of one part leave alone: the state of the other parts.
notHeader == <<lvars, fvars, kvars>>

notLibrary == <<hvars, fvars, kvars>>

notFlags == <<hvars, lvars, kvars>>

notDevkit == <<hvars, lvars, fvars>>

\* ------------------------------------------------------------------------
\* Bounds
\* ------------------------------------------------------------------------
\* Number of header files of the closure (header_files).
NumHeaders == 3
\* Total number of lines over all the header files that are read.
MaxLines == 4
\* Number of link flags pkg-config prints.
MaxFlags == 3
\* Number of archives in the list of generate_library_windows.
MaxArchives == 2
\* Number of object members of one archive.
MaxMembers == 2
\* Number of tokens of the compile flags and the link flags together.
MaxTokens == 5

\* ------------------------------------------------------------------------
\* Helpers on sequences
\* ------------------------------------------------------------------------
SeqsUpTo(S, n) == UNION {[1..k -> S] : k \in 0..n}

Count(s, x) == Cardinality({i \in 1..Len(s) : s[i] = x})

\* str.endswith("/" + name) on paths and names given as their components:
\* the path is absolute, so every component is preceded by a "/".
EndsWith(path, name) ==
    /\ Len(name) >= 1
    /\ Len(name) <= Len(path)
    /\ SubSeq(path, Len(path) - Len(name) + 1, Len(path)) = name

\* ------------------------------------------------------------------------
\* generate_header, ingest_header
\* ------------------------------------------------------------------------
\* The header files of the project, as absolute paths split at "/".  Two of
\* them share a base name, as headers of different directories may.
AllHeaderPaths ==
    << <<"root", "gum.h">>,
       <<"root", "gum", "defs.h">>,
       <<"root", "arch", "defs.h">>,
       <<"root", "gum", "mem.h">>,
       <<"root", "arch", "mem.h">> >>

\* header_files: the dependency closure, the umbrella header first.
header_files == SubSeq(AllHeaderPaths, 1, NumHeaders)

Headers == 1..NumHeaders

\* umbrella_header = header_files[0]
umbrella_header == 1

BaseName(h) == header_files[h][Len(header_files[h])]

\* The names an include directive may carry: the base name of a header of
\* the closure, the name with its directory of a header whose base name an
\* earlier header of the closure has too, or a system header.
IncludeNames ==
    {<<BaseName(h)>> : h \in Headers}
        \cup {SubSeq(header_files[h], 2, Len(header_files[h])) :
                 h \in {g \in Headers : \E f \in 1..(g - 1) : BaseName(f) = BaseName(g)}}
        \cup {<<"stdio.h">>}

\* A line of a header: an include directive (INCLUDE_PATTERN matches, name is
\* match.group(1)) or any other line; the text of a header's other lines is
\* its own, written here as the header's path.
IncludeLine(name) == [kind |-> "include", name |-> name]

TextLine(h) == [kind |-> "text", name |-> header_files[h]]

LinesOf(h) == {IncludeLine(n) : n \in IncludeNames} \cup {TextLine(h)}

\* The first header of the closure whose path ends with "/" + name, or 0:
\* the scan "for other_header in all_header_files ... break".
RECURSIVE FirstMatch(_, _)
FirstMatch(name, i) ==
    IF i > NumHeaders THEN 0
    ELSE IF EndsWith(header_files[i], name) THEN i
    ELSE FirstMatch(name, i + 1)

ResolveInclude(name) == FirstMatch(name, 1)

\* processed_header_files = set([umbrella_header])
InitProcessedEmpty == {}

InitProcessed == {umbrella_header}

\* processed_header_files.add(other_header)
MarkProcessedForget(done, h) == done

MarkProcessed(done, h) == done \cup {h}

\* result.append(line), line 127: the line as read, each time it is read.
AppendOnce(lines, line) ==
    IF \E k \in 1..Len(lines) : lines[k] = line THEN lines ELSE Append(lines, line)

AppendVerbatim(lines, line) == Append(lines, line)

\* open(header, "r"): the file's lines; a file read again reads the same.
HContents(h) ==
    IF opens[h] = 0 THEN SeqsUpTo(LinesOf(h), MaxLines - used) ELSE {files[h]}

OpenHeader(h, content) ==
    /\ files' = [files EXCEPT ![h] = content]
    /\ used' = IF opens[h] = 0 THEN used + Len(content) ELSE used
    /\ opens' = [opens EXCEPT ![h] = @ + 1]

Top == stack[Len(stack)]

AtLine == Len(stack) > 0 /\ Top.pos <= Len(files[Top.header])

CurLine == files[Top.header][Top.pos]

Advance == [stack EXCEPT ![Len(stack)].pos = @ + 1]

\* generate_header, lines 99-102: the first call of ingest_header.
HGenerate ==
    /\ hpc = "start"
    /\ \E content \in HContents(umbrella_header) :
          OpenHeader(umbrella_header, content)
    /\ processed' = InitProcessed
    /\ result' = <<>>
    /\ stack' = <<[header |-> umbrella_header, pos |-> 1]>>
    /\ hpc' = "ingest"
    /\ UNCHANGED notHeader

\* A line that is no include directive is appended.
HText ==
    /\ hpc = "ingest" /\ AtLine
    /\ CurLine.kind = "text"
    /\ result' = Append(result, CurLine)
    /\ stack' = Advance
    /\ UNCHANGED <<hpc, files, opens, used, processed>>
    /\ UNCHANGED notHeader

\* An include directive that matches no header of the closure is appended.
HNonLocal ==
    /\ hpc = "ingest" /\ AtLine
    /\ CurLine.kind = "include"
    /\ ResolveInclude(CurLine.name) = 0
    /\ result' = AppendVerbatim(result, CurLine)
    /\ stack' = Advance
    /\ UNCHANGED <<hpc, files, opens, used, processed>>
    /\ UNCHANGED notHeader

\* An include directive whose header is not processed yet: mark it and
\* descend into it.
HInline ==
    /\ hpc = "ingest" /\ AtLine
    /\ CurLine.kind = "include"
    /\ LET other == ResolveInclude(CurLine.name) IN
          /\ other # 0
          /\ other \notin processed
          /\ processed' = MarkProcessed(processed, other)
          /\ \E content \in HContents(other) : OpenHeader(other, content)
          /\ stack' = Append(Advance, [header |-> other, pos |-> 1])
    /\ UNCHANGED <<hpc, result>>
    /\ UNCHANGED notHeader

\* An include directive whose header is processed already: dropped.
HDrop ==
    /\ hpc = "ingest" /\ AtLine
    /\ CurLine.kind = "include"
    /\ LET other == ResolveInclude(CurLine.name) IN
          /\ other # 0
          /\ other \in processed
    /\ stack' = Advance
    /\ UNCHANGED <<hpc, files, opens, used, processed, result>>
    /\ UNCHANGED notHeader

\* The end of a file: ingest_header returns to its caller.
HReturn ==
    /\ hpc = "ingest"
    /\ Len(stack) > 0 /\ ~AtLine
    /\ stack' = SubSeq(stack, 1, Len(stack) - 1)
    /\ hpc' = IF Len(stack) = 1 THEN "done" ELSE "ingest"
    /\ UNCHANGED <<files, opens, used, processed, result>>
    /\ UNCHANGED notHeader

HeaderIdle ==
    /\ hpc = "idle"
    /\ files = <<>>
    /\ opens = <<>>
    /\ used = 0
    /\ stack = <<>>
    /\ processed = {}
    /\ result = <<>>

LibraryIdle ==
    /\ lpc = "idle"
    /\ system = "none"
    /\ library_flags = <<>>
    /\ existing = {}
    /\ library_paths = <<>>
    /\ extra_flags = <<>>
    /\ lib_idx = 0
    /\ pending = <<>>
    /\ archives = <<>>
    /\ object_names = {}
    /\ combined = {}
    /\ dirs = {}

FlagsIdle ==
    /\ fpc = "idle"
    /\ cflags = <<>>
    /\ ldflags = <<>>
    /\ out_cflags = <<>>
    /\ out_ldflags = <<>>

DevkitIdle ==
    /\ kpc = "idle"
    /\ argc = 0
    /\ kit = "none"
    /\ host_system = "none"
    /\ outdir = "none"
    /\ umbrella_found = FALSE
    /\ generated = {}
    /\ written = {}

InitHeader ==
    /\ LibraryIdle
    /\ FlagsIdle
    /\ DevkitIdle
    /\ hpc = "start"
    /\ files = [h \in Headers |-> <<>>]
    /\ opens = [h \in Headers |-> 0]
    /\ used = 0
    /\ stack = <<>>
    /\ processed = {}
    /\ result = <<>>

NextHeader ==
    \/ HGenerate
    \/ HText
    \/ HNonLocal
    \/ HInline
    \/ HDrop
    \/ HReturn

SpecHeader == InitHeader /\ [][NextHeader]_vars

\* ingest_header runs to its end with no other thread: every enabled step
\* is eventually taken.
FairSpecHeader == SpecHeader /\ WF_vars(NextHeader)

\* ------------------------------------------------------------------------
\* generate_library_unix, generate_library_windows
\* ------------------------------------------------------------------------
\* A link flag is the text opt + arg: "-L" + directory, "-l" + name,
\* "-Wl" + ",option", or another flag such as "-pthread".
Flag(opt, arg) == [opt |-> opt, arg |-> arg]

LibraryDirs == {"sdk", "usr"}

LibraryNames == {"glib", "ffi"}

RawFlags ==
    {Flag("-L", d) : d \in LibraryDirs}
        \cup {Flag("-l", n) : n \in LibraryNames}
        \cup {Flag("-Wl", ",-dead_strip"), Flag("-pthread", "")}

\* flag.startswith(prefix), for the prefixes "-L", "-l" and "-Wl"
StartsWith(flag, prefix) == flag.opt = prefix

\* [f(x) for x in items]
RECURSIVE MapArg(_)
MapArg(flags) ==
    IF flags = <<>> THEN <<>> ELSE <<Head(flags).arg>> \o MapArg(Tail(flags))

\* infer_library_dirs
infer_library_dirs(flags) ==
    MapArg(SelectSeq(flags, LAMBDA f : StartsWith(f, "-L")))

\* infer_library_names
infer_library_names(flags) ==
    MapArg(SelectSeq(flags, LAMBDA f : StartsWith(f, "-l")))

\* infer_linker_flags
infer_linker_flags(flags) ==
    SelectSeq(flags, LAMBDA f : StartsWith(f, "-Wl"))

\* os.path.join(d, "lib{}.a".format(name))
Candidate(d, name) == <<d, name>>

NoPath == <<>>

\* The inner loop of resolve_library_paths: the candidate of the first
\* directory that has it, or None.
RECURSIVE FirstExisting(_, _, _)
FirstExisting(name, search_dirs, i) ==
    IF i > Len(search_dirs) THEN NoPath
    ELSE IF Candidate(search_dirs[i], name) \in existing
         THEN Candidate(search_dirs[i], name)
         ELSE FirstExisting(name, search_dirs, i + 1)

\* The outer loop of resolve_library_paths: paths and flags as appended.
RECURSIVE ResolveLoop(_, _, _)
ResolveLoop(names, search_dirs, acc) ==
    IF names = <<>> THEN acc
    ELSE LET library_path == FirstExisting(Head(names), search_dirs, 1)
         IN  ResolveLoop(Tail(names), search_dirs,
                 IF library_path # NoPath
                 THEN [acc EXCEPT !.paths = Append(@, library_path)]
                 ELSE [acc EXCEPT !.flags = Append(@, Flag("-l", Head(names)))])

Range(s) == {s[i] : i \in 1..Len(s)}

\* list(set(paths)): the elements of the set, each once, in the order in
\* which the set happens to iterate.
ListOfSet(paths) ==
    {s \in [1..Cardinality(Range(paths)) -> Range(paths)] : Range(s) = Range(paths)}

\* "_" + object_name while the name is claimed
RECURSIVE FreeName(_, _)
FreeNameKeep(object_name, claimed) == object_name

FreeNameOnce(object_name, claimed) ==
    IF object_name \in claimed THEN <<"_">> \o object_name ELSE object_name

FreeName(object_name, claimed) ==
    IF object_name \in claimed
    THEN FreeName(<<"_">> \o object_name, claimed)
    ELSE object_name

\* The base names of the objects an archive may hold; a name is the sequence
\* of its leading underscores and its rest.
MemberNames == {<<"x.o">>, <<"y.o">>, <<"z.o">>, <<"_", "x.o">>}

\* What one archive yields: its objects (glob's *.o of the scratch
\* directory, or the .obj lines of lib /list), in the order of the listing.
Listings ==
    {s \in SeqsUpTo(MemberNames, MaxMembers) :
        \A i, j \in 1..Len(s) : s[i] = s[j] => i = j}

\* The directory part that a member name of lib /list may carry.
DirParts == {"obj/"}

\* os.path.basename(original_object_name)
basename(path) == IF Head(path) \in DirParts THEN Tail(path) ELSE path

\* The .obj lines of lib /list: member names, with their directory when the
\* archive records one, so that two members of one archive may share a base
\* name.
WindowsMembers == MemberNames \cup {<<"obj/", "x.o">>}

WindowsListings ==
    {s \in SeqsUpTo(WindowsMembers, MaxMembers) :
        \A i, j \in 1..Len(s) : s[i] = s[j] => i = j}

\* [package_lib_path] + package_lib_deps
WindowsLibraries ==
    << <<"tmp-windows", "package">>,
       <<"sdk-windows", "glib-2.0">>,
       <<"sdk-windows", "intl">>,
       <<"sdk-windows", "gobject-2.0">>,
       <<"sdk-windows", "ffi">> >>

\* A file moved or extracted to combined_dir under a name replaces the file
\* of that name.
PutFile(dir, name, src, orig) ==
    {f \in dir : f.name # name} \cup {[name |-> name, src |-> src, orig |-> orig]}

\* generate_library_unix, lines 235-241: the flags of pkg-config, split into
\* directories, names and linker flags, and the names resolved to archives.
LResolveUnix ==
    /\ lpc = "start" /\ system # "Windows"
    /\ LET res == ResolveLoop(infer_library_names(library_flags),
                              infer_library_dirs(library_flags),
                              [paths |-> <<>>, flags |-> <<>>])
       IN  /\ library_paths' \in ListOfSet(res.paths)
           /\ extra_flags' = res.flags \o infer_linker_flags(library_flags)
    /\ lpc' = "resolved"
    /\ UNCHANGED <<system, library_flags, existing, lib_idx, pending, archives,
                   object_names, combined, dirs>>
    /\ UNCHANGED notLibrary

\* pkg-config fails: check_output raises.
LResolveFail ==
    /\ lpc = "start" /\ system # "Windows"
    /\ lpc' = "raised"
    /\ UNCHANGED <<system, library_flags, existing, library_paths, extra_flags,
                   lib_idx, pending, archives, object_names, combined, dirs>>
    /\ UNCHANGED notLibrary

\* Lines 243-244: combined_dir is made.  The flags and the file system are
\* not read again.
LMkCombinedUnix ==
    /\ lpc = "resolved"
    /\ dirs' = dirs \cup {"combined"}
    /\ object_names' = {}
    /\ lib_idx' = 1
    /\ library_flags' = <<>>
    /\ existing' = {}
    /\ lpc' = "loop"
    /\ UNCHANGED <<system, library_paths, extra_flags, pending, archives, combined>>
    /\ UNCHANGED notLibrary

\* Lines 247-253: scratch_dir is made, ar x extracts the archive into it and
\* glob lists its objects.
LExtractUnix ==
    /\ lpc = "loop" /\ system # "Windows"
    /\ lib_idx <= Len(library_paths)
    /\ dirs' = dirs \cup {"scratch"}
    /\ \E listing \in Listings :
          /\ pending' = listing
          /\ archives' = Append(archives, Range(listing))
    /\ lpc' = "objects"
    /\ UNCHANGED <<system, library_flags, existing, library_paths, extra_flags,
                   lib_idx, object_names, combined>>
    /\ UNCHANGED notLibrary

\* ar x fails: check_output raises after scratch_dir was made.
LExtractUnixFail ==
    /\ lpc = "loop" /\ system # "Windows"
    /\ lib_idx <= Len(library_paths)
    /\ dirs' = dirs \cup {"scratch"}
    /\ lpc' = "raised"
    /\ UNCHANGED <<system, library_flags, existing, library_paths, extra_flags,
                   lib_idx, pending, archives, object_names, combined>>
    /\ UNCHANGED notLibrary

\* Lines 254-258: one object gets a free name and is moved to combined_dir.
LMoveUnix ==
    /\ lpc = "objects" /\ system # "Windows"
    /\ pending # <<>>
    /\ LET object_name == FreeName(Head(pending), object_names)
       IN  /\ object_names' = object_names \cup {object_name}
           /\ combined' = PutFile(combined, object_name, lib_idx, Head(pending))
    /\ pending' = Tail(pending)
    /\ UNCHANGED <<lpc, system, library_flags, existing, library_paths, extra_flags,
                   lib_idx, archives, dirs>>
    /\ UNCHANGED notLibrary

\* Line 260: scratch_dir is removed, the loop goes on.
LRmScratchUnix ==
    /\ lpc = "objects" /\ system # "Windows"
    /\ pending = <<>>
    /\ dirs' = dirs \ {"scratch"}
    /\ lib_idx' = lib_idx + 1
    /\ lpc' = "loop"
    /\ UNCHANGED <<system, library_flags, existing, library_paths, extra_flags,
                   pending, archives, object_names, combined>>
    /\ UNCHANGED notLibrary

\* generate_library_windows, lines 177-190: the list of the package's
\* library and its dependencies; combined_dir is made.
LMkCombinedWindows ==
    /\ lpc = "start" /\ system = "Windows"
    /\ \E n \in 1..MaxArchives : library_paths' = SubSeq(WindowsLibraries, 1, n)
    /\ dirs' = dirs \cup {"combined"}
    /\ object_names' = {}
    /\ lib_idx' = 1
    /\ lpc' = "loop"
    /\ UNCHANGED <<system, library_flags, existing, extra_flags, pending, archives,
                   combined>>
    /\ UNCHANGED notLibrary

\* Lines 193-198: lib /list names the members, the .obj ones are kept.
LListWindows ==
    /\ lpc = "loop" /\ system = "Windows"
    /\ lib_idx <= Len(library_paths)
    /\ \E listing \in WindowsListings :
          /\ pending' = listing
          /\ archives' = Append(archives, Range(listing))
    /\ lpc' = "objects"
    /\ UNCHANGED <<system, library_flags, existing, library_paths, extra_flags,
                   lib_idx, object_names, combined, dirs>>
    /\ UNCHANGED notLibrary

\* lib /list fails: check_output raises.
LListWindowsFail ==
    /\ lpc = "loop" /\ system = "Windows"
    /\ lib_idx <= Len(library_paths)
    /\ lpc' = "raised"
    /\ UNCHANGED <<system, library_flags, existing, library_paths, extra_flags,
                   lib_idx, pending, archives, object_names, combined, dirs>>
    /\ UNCHANGED notLibrary

\* Lines 200-211: one object gets a free name and lib /extract writes it to
\* combined_dir.
LExtractWindows ==
    /\ lpc = "objects" /\ system = "Windows"
    /\ pending # <<>>
    /\ LET object_name == FreeName(basename(Head(pending)), object_names)
       IN  /\ object_names' = object_names \cup {object_name}
           /\ combined' = PutFile(combined, object_name, lib_idx, Head(pending))
    /\ pending' = Tail(pending)
    /\ UNCHANGED <<lpc, system, library_flags, existing, library_paths, extra_flags,
                   lib_idx, archives, dirs>>
    /\ UNCHANGED notLibrary

\* lib /extract fails: check_output raises after the name was claimed.
LExtractWindowsFail ==
    /\ lpc = "objects" /\ system = "Windows"
    /\ pending # <<>>
    /\ object_names' = object_names \cup {FreeName(basename(Head(pending)), object_names)}
    /\ lpc' = "raised"
    /\ UNCHANGED <<system, library_flags, existing, library_paths, extra_flags,
                   lib_idx, pending, archives, combined, dirs>>
    /\ UNCHANGED notLibrary

\* The objects of one archive are done: the loop goes on.
LNextWindows ==
    /\ lpc = "objects" /\ system = "Windows"
    /\ pending = <<>>
    /\ lib_idx' = lib_idx + 1
    /\ lpc' = "loop"
    /\ UNCHANGED <<system, library_flags, existing, library_paths, extra_flags,
                   pending, archives, object_names, combined, dirs>>
    /\ UNCHANGED notLibrary

\* Lines 262-269 (unix), 213-222 (windows): the archiver packs the objects
\* of combined_dir into the library.
LPack ==
    /\ lpc = "loop"
    /\ lib_idx > Len(library_paths)
    /\ lpc' = "packed"
    /\ UNCHANGED <<system, library_flags, existing, library_paths, extra_flags,
                   lib_idx, pending, archives, object_names, combined, dirs>>
    /\ UNCHANGED notLibrary

\* The archiver fails: check_output raises.
LPackFail ==
    /\ lpc = "loop"
    /\ lib_idx > Len(library_paths)
    /\ lpc' = "raised"
    /\ UNCHANGED <<system, library_flags, existing, library_paths, extra_flags,
                   lib_idx, pending, archives, object_names, combined, dirs>>
    /\ UNCHANGED notLibrary

\* Lines 270-271 (unix), 224-225 (windows): the library is read.
LRead ==
    /\ lpc = "packed"
    /\ lpc' = "read"
    /\ UNCHANGED <<system, library_flags, existing, library_paths, extra_flags,
                   lib_idx, pending, archives, object_names, combined, dirs>>
    /\ UNCHANGED notLibrary

\* open or read fails.
LReadFail ==
    /\ lpc = "packed"
    /\ lpc' = "raised"
    /\ UNCHANGED <<system, library_flags, existing, library_paths, extra_flags,
                   lib_idx, pending, archives, object_names, combined, dirs>>
    /\ UNCHANGED notLibrary

\* Lines 273-275 (unix), 226-230 (windows): combined_dir is removed and the
\* bytes and the extra flags are returned.
LReturn ==
    /\ lpc = "read"
    /\ dirs' = dirs \ {"combined"}
    /\ lpc' = "returned"
    /\ UNCHANGED <<system, library_flags, existing, library_paths, extra_flags,
                   lib_idx, pending, archives, object_names, combined>>
    /\ UNCHANGED notLibrary

InitLibrary ==
    /\ HeaderIdle
    /\ FlagsIdle
    /\ DevkitIdle
    /\ lpc = "start"
    /\ system \in {"Linux", "Windows"}
    /\ IF system = "Windows"
       THEN library_flags = <<>> /\ existing = {}
       ELSE /\ library_flags \in SeqsUpTo(RawFlags, MaxFlags)
            /\ existing \in SUBSET {Candidate(d, n) : d \in LibraryDirs, n \in LibraryNames}
    /\ library_paths = <<>>
    /\ extra_flags = <<>>
    /\ lib_idx = 0
    /\ pending = <<>>
    /\ archives = <<>>
    /\ object_names = {}
    /\ combined = {}
    /\ dirs = {}

NextLibrary ==
    \/ LResolveUnix
    \/ LResolveFail
    \/ LMkCombinedUnix
    \/ LExtractUnix
    \/ LExtractUnixFail
    \/ LMoveUnix
    \/ LRmScratchUnix
    \/ LMkCombinedWindows
    \/ LListWindows
    \/ LListWindowsFail
    \/ LExtractWindows
    \/ LExtractWindowsFail
    \/ LNextWindows
    \/ LPack
    \/ LPackFail
    \/ LRead
    \/ LReadFail
    \/ LReturn

SpecLibrary == InitLibrary /\ [][NextLibrary]_vars

\* ------------------------------------------------------------------------
\* trim_flags, deduplicate
\* ------------------------------------------------------------------------
\* A flag is written as its parts between commas: "-O2" is <<"-O2">>,
\* "-Wl,a,b" is <<"-Wl", "a", "b">>.  No flag holds a space, so a string of
\* flags joined by single spaces and the list of its flags determine each
\* other.
Token(text) == <<text>>

WlToken(arg) == <<"-Wl", arg>>

CompileTokens ==
    {Token("-O2"), Token("-Wall"), Token("-include"), Token("foo.h"),
     Token("-arch"), Token("-isysroot"), WlToken("a")}

LinkTokens ==
    {Token("-O2"), Token("x86_64"), Token("-arch"), Token("-isysroot"),
     WlToken("a"), WlToken("b")}

\* flag in ("-arch", "-isysroot")
PairFlags == {Token("-arch"), Token("-isysroot")}

\* flag.startswith("-Wl,")
IsWl(flag) == Len(flag) >= 2 /\ flag[1] = "-Wl"

\* flag = None
NoFlag == <<>>

\* deduplicate: list(OrderedDict.fromkeys(items))
RECURSIVE FromKeys(_, _)
FromKeys(items, keys) ==
    IF items = <<>> THEN keys
    ELSE FromKeys(Tail(items),
                  IF Head(items) \in Range(keys) THEN keys ELSE Append(keys, Head(items)))

deduplicate(items) == FromKeys(items, <<>>)

\* The first loop of trim_flags, lines 784-789; pop(0) on an empty list
\* raises IndexError.
RECURSIVE DropInclude(_, _)
DropIncludeAlone(pending_flags, trimmed) ==
    [raised |-> FALSE,
     flags |-> SelectSeq(pending_flags, LAMBDA f : f # Token("-include"))]

DropInclude(pending_flags, trimmed) ==
    IF pending_flags = <<>> THEN [raised |-> FALSE, flags |-> trimmed]
    ELSE IF Head(pending_flags) = Token("-include")
         THEN IF Tail(pending_flags) = <<>>
              THEN [raised |-> TRUE, flags |-> trimmed]
              ELSE DropInclude(Tail(Tail(pending_flags)), trimmed)
         ELSE DropInclude(Tail(pending_flags), Append(trimmed, Head(pending_flags)))

\* The second loop, lines 795-800.
RECURSIVE DropPairs(_, _, _)
DropPairs(pending_flags, trimmed, existing_cflags) ==
    IF pending_flags = <<>> THEN [raised |-> FALSE, flags |-> trimmed]
    ELSE IF Head(pending_flags) \in PairFlags /\ Head(pending_flags) \in existing_cflags
         THEN IF Tail(pending_flags) = <<>>
              THEN [raised |-> TRUE, flags |-> trimmed]
              ELSE DropPairs(Tail(Tail(pending_flags)), trimmed, existing_cflags)
         ELSE DropPairs(Tail(pending_flags), Append(trimmed, Head(pending_flags)), existing_cflags)

\* The inner loop, lines 807-814: the arguments of a run of -Wl, flags, the
\* flag after the run (None at the end of the list) and the flags left.
\* raw_flags is kept as the parts that ",".join(raw_flags) has.
RECURSIVE TakeRun(_, _, _)
TakeRunSingle(flag, pending_flags, raw_flags) ==
    IF IsWl(flag)
    THEN [flag |-> NoFlag, pending_flags |-> pending_flags, raw |-> raw_flags \o Tail(flag)]
    ELSE [flag |-> flag, pending_flags |-> pending_flags, raw |-> raw_flags]

TakeRun(flag, pending_flags, raw_flags) ==
    IF IsWl(flag)
    THEN IF pending_flags # <<>>
         THEN TakeRun(Head(pending_flags), Tail(pending_flags), raw_flags \o Tail(flag))
         ELSE [flag |-> NoFlag, pending_flags |-> pending_flags, raw |-> raw_flags \o Tail(flag)]
    ELSE [flag |-> flag, pending_flags |-> pending_flags, raw |-> raw_flags]

\* The third loop, lines 804-819.
RECURSIVE MergeLoop(_, _, _)
MergeLoop(pending_flags, trimmed, existing_cflags) ==
    IF pending_flags = <<>> THEN trimmed
    ELSE LET run == TakeRun(Head(pending_flags), Tail(pending_flags), <<>>)
             merged == IF run.raw # <<>>
                       THEN Append(trimmed, <<"-Wl">> \o run.raw)
                       ELSE trimmed
         IN  MergeLoop(run.pending_flags,
                       IF run.flag # NoFlag /\ run.flag \notin existing_cflags
                       THEN Append(merged, run.flag)
                       ELSE merged,
                       existing_cflags)

\* trim_flags: the two lists of flags returned, or raised.
trim_flags(compile, link) ==
    LET kept == DropInclude(compile, <<>>)
        trimmed_cflags == deduplicate(kept.flags)
        existing_cflags == Range(trimmed_cflags)
        unpaired == DropPairs(link, <<>>, existing_cflags)
    IN  IF kept.raised \/ unpaired.raised
        THEN [raised |-> TRUE, cflags |-> <<>>, ldflags |-> <<>>]
        ELSE [raised |-> FALSE,
              cflags |-> trimmed_cflags,
              ldflags |-> MergeLoop(unpaired.flags, <<>>, existing_cflags)]

\* One call of trim_flags.
FTrim ==
    /\ fpc = "start"
    /\ LET r == trim_flags(cflags, ldflags)
       IN  /\ fpc' = IF r.raised THEN "raised" ELSE "returned"
           /\ out_cflags' = r.cflags
           /\ out_ldflags' = r.ldflags
    /\ UNCHANGED <<cflags, ldflags>>
    /\ UNCHANGED notFlags

\* str.split(" ") gives at least one token.
InitFlags ==
    /\ HeaderIdle
    /\ LibraryIdle
    /\ DevkitIdle
    /\ fpc = "start"
    /\ \E n \in 1..(MaxTokens - 1) :
          /\ cflags \in [1..n -> CompileTokens]
          /\ \E m \in 1..(MaxTokens - n) : ldflags \in [1..m -> LinkTokens]
    /\ out_cflags = <<>>
    /\ out_ldflags = <<>>

NextFlags == FTrim

SpecFlags == InitFlags /\ [][NextFlags]_vars

\* ------------------------------------------------------------------------
\* __main__, generate_devkit
\* ------------------------------------------------------------------------
\* The keys of DEVKITS.
DEVKITS == {"frida-gum", "frida-gumjs", "frida-core"}

\* The number of arguments __main__ asks for: len(sys.argv) != 4.
ArgvLen == 4

\* kit + ".h"
header_filename == <<kit, ".h">>

\* compute_library_filename
compute_library_filename ==
    IF host_system = "Windows" THEN <<kit, ".lib">> ELSE <<"lib", kit, ".a">>

\* kit + "-example.c"
example_filename == <<kit, "-example.c">>

KStep(from, to) ==
    /\ kpc = from
    /\ kpc' = to
    /\ UNCHANGED <<argc, kit, host_system, umbrella_found>>
    /\ UNCHANGED notDevkit

\* Lines 828-830: the wrong number of arguments prints the usage and exits.
KUsage ==
    /\ argc # ArgvLen
    /\ KStep("main", "exit")
    /\ UNCHANGED <<outdir, generated, written>>

\* Lines 836-839: os.makedirs(outdir); any failure of it is passed over.
KMakedirs ==
    /\ argc = ArgvLen
    /\ KStep("main", "devkit")
    /\ outdir' \in IF outdir = "absent" THEN {"present", "absent"} ELSE {outdir}
    /\ UNCHANGED <<generated, written>>

\* Lines 24-32: the kit is looked up (KeyError for a kit that is none) and
\* the umbrella header must exist.
KLookup ==
    /\ KStep("devkit", IF kit \in DEVKITS /\ umbrella_found THEN "header" ELSE "raised")
    /\ UNCHANGED <<outdir, generated, written>>

\* Line 33: generate_header returns the header.
KGenerateHeader ==
    /\ KStep("header", "write_header")
    /\ generated' = generated \cup {"header"}
    /\ UNCHANGED <<outdir, written>>

\* Line 33: generate_header raises (the preprocessor fails).
KGenerateHeaderFail ==
    /\ KStep("header", "raised")
    /\ UNCHANGED <<outdir, generated, written>>

\* Lines 34-35: the header is written.
KWriteHeader ==
    /\ outdir = "present"
    /\ KStep("write_header", "library")
    /\ written' = written \cup {header_filename}
    /\ UNCHANGED <<outdir, generated>>

\* Lines 34-35: open or write fails.
KWriteHeaderFail ==
    /\ KStep("write_header", "raised")
    /\ UNCHANGED <<outdir, generated, written>>

\* Lines 37-38: generate_library returns the library.
KGenerateLibrary ==
    /\ KStep("library", "write_library")
    /\ generated' = generated \cup {"library"}
    /\ UNCHANGED <<outdir, written>>

\* Lines 37-38: generate_library raises (pkg-config or the archiver fails).
KGenerateLibraryFail ==
    /\ KStep("library", "raised")
    /\ UNCHANGED <<outdir, generated, written>>

\* Lines 39-40: the library is written.
KWriteLibrary ==
    /\ outdir = "present"
    /\ KStep("write_library", "example")
    /\ written' = written \cup {compute_library_filename}
    /\ UNCHANGED <<outdir, generated>>

\* Lines 39-40: open or write fails.
KWriteLibraryFail ==
    /\ KStep("write_library", "raised")
    /\ UNCHANGED <<outdir, generated, written>>

\* Lines 42-43: generate_example returns the example.
KGenerateExample ==
    /\ KStep("example", "write_example")
    /\ generated' = generated \cup {"example"}
    /\ UNCHANGED <<outdir, written>>

\* Lines 42-43: generate_example raises (probe_env fails, trim_flags raises).
KGenerateExampleFail ==
    /\ KStep("example", "raised")
    /\ UNCHANGED <<outdir, generated, written>>

\* Lines 44-47: the example is written and the file names are returned.
KWriteExample ==
    /\ outdir = "present"
    /\ KStep("write_example", "returned")
    /\ written' = written \cup {example_filename}
    /\ UNCHANGED <<outdir, generated>>

\* Lines 44-45: open or write fails.
KWriteExampleFail ==
    /\ KStep("write_example", "raised")
    /\ UNCHANGED <<outdir, generated, written>>

InitDevkit ==
    /\ HeaderIdle
    /\ LibraryIdle
    /\ FlagsIdle
    /\ kpc = "main"
    /\ argc \in {ArgvLen - 1, ArgvLen}
    /\ kit \in DEVKITS \cup {"frida-other"}
    /\ host_system \in {"Linux", "Darwin", "Windows"}
    /\ outdir \in {"absent", "present"}
    /\ umbrella_found \in BOOLEAN
    /\ generated = {}
    /\ written = {}

NextDevkit ==
    \/ KUsage
    \/ KMakedirs
    \/ KLookup
    \/ KGenerateHeader
    \/ KGenerateHeaderFail
    \/ KWriteHeader
    \/ KWriteHeaderFail
    \/ KGenerateLibrary
    \/ KGenerateLibraryFail
    \/ KWriteLibrary
    \/ KWriteLibraryFail
    \/ KGenerateExample
    \/ KGenerateExampleFail
    \/ KWriteExample
    \/ KWriteExampleFail

SpecDevkit == InitDevkit /\ [][NextDevkit]_vars

\* ---- Claims on the amalgamation

\* The local headers a header includes: the targets of its include lines.
IncludedBy(h) ==
    {ResolveInclude(files[h][i].name) :
        i \in {j \in 1..Len(files[h]) : files[h][j].kind = "include"}} \ {0}

RECURSIVE ReachFrom(_)
ReachFrom(S) ==
    LET more == S \cup UNION {IncludedBy(h) : h \in S}
    IN  IF more = S THEN S ELSE ReachFrom(more)

\* The local headers reachable from the umbrella header through includes.
Reachable == ReachFrom({umbrella_header})

TextCount(s, h) == Count(s, TextLine(h))

\* C1: when generate_header has finished, every local header reachable from
\* the umbrella header through include directives has been read once and its
\* own lines stand in the output as often as in its file (its body is spliced
\* in exactly once); at no time is a header spliced in twice, and a header
\* that is not reachable is never spliced in.
C1_SplicedExactlyOnce ==
    /\ \A h \in Headers : opens[h] <= 1
    /\ \A h \in Headers \ Reachable : opens[h] = 0
    /\ hpc = "done" =>
          \A h \in Reachable :
              /\ opens[h] = 1
              /\ TextCount(result, h) = TextCount(files[h], h)

\* A finished run over a diamond: a header with a line of its own that two
\* different headers include.
C1_Witness ==
    /\ hpc = "done"
    /\ \E h \in Headers \ {umbrella_header} :
          /\ TextCount(files[h], h) >= 1
          /\ TextCount(result, h) = 1
          /\ \E a, b \in Reachable : a # b /\ h \in IncludedBy(a) /\ h \in IncludedBy(b)

\* C2: the descent of ingest_header ends for every closure, also when headers
\* include each other or themselves: no header is entered while it is being
\* read (so the recursion is never deeper than the closure), the umbrella
\* header in particular is never entered again, and the run reaches its end.
C2_Terminates ==
    /\ [](\A i, j \in 1..Len(stack) : stack[i].header = stack[j].header => i = j)
    /\ [](\A i \in 2..Len(stack) : stack[i].header # umbrella_header)
    /\ <>(hpc = "done")

\* A finished run in which the umbrella header is included by itself or by a
\* header it includes, and a header other than it lies on an include cycle.
C2_Witness ==
    /\ hpc = "done"
    /\ \E h \in Reachable : umbrella_header \in IncludedBy(h)
    /\ \E h \in Reachable \ {umbrella_header} :
          \E g \in IncludedBy(h) : h \in ReachFrom({g})

\* ---- Claims on the archive combination

\* C4: when generate_library has returned or raised, no scratch directory
\* and no accumulation directory is left.
C4_DirectoriesRemoved ==
    lpc \in {"returned", "raised"} => dirs = {}

ArchiveA == {<<"x.o">>, <<"y.o">>}

ArchiveB == {<<"x.o">>, <<"z.o">>}

File(name, src, orig) == [name |-> name, src |-> src, orig |-> orig]

\* C5 as stated: archives A {x.o, y.o} then B {x.o, z.o} combine to 3
\* members, B's x.o renamed to _x.o.
C5_ThreeMembers ==
    (lpc = "returned" /\ archives = <<ArchiveA, ArchiveB>>) =>
        /\ Cardinality(combined) = 3
        /\ File(<<"_", "x.o">>, 2, <<"x.o">>) \in combined

\* C5, amended: archives A {x.o, y.o} then B {x.o, z.o} combine to 4
\* members, x.o and y.o of A, z.o of B and B's x.o renamed to _x.o; with B
\* first and A second it is A's x.o that is renamed; the objects of the
\* archive processed first always keep their names (their base names, which
\* differ within the archive).
C5_OrderStable ==
    /\ (/\ Len(archives) >= 1
        /\ \A a, b \in archives[1] : basename(a) = basename(b) => a = b) =>
          \A f \in combined : f.src = 1 => f.name = basename(f.orig)
    /\ (lpc = "returned" /\ archives = <<ArchiveA, ArchiveB>>) =>
          /\ Cardinality(combined) = 4
          /\ combined = {File(<<"x.o">>, 1, <<"x.o">>), File(<<"y.o">>, 1, <<"y.o">>),
                         File(<<"_", "x.o">>, 2, <<"x.o">>), File(<<"z.o">>, 2, <<"z.o">>)}
    /\ (lpc = "returned" /\ archives = <<ArchiveB, ArchiveA>>) =>
          /\ Cardinality(combined) = 4
          /\ combined = {File(<<"x.o">>, 1, <<"x.o">>), File(<<"z.o">>, 1, <<"z.o">>),
                         File(<<"_", "x.o">>, 2, <<"x.o">>), File(<<"y.o">>, 2, <<"y.o">>)}

\* A returned combination of A then B, B's x.o renamed.
C5_Witness ==
    /\ lpc = "returned"
    /\ archives = <<ArchiveA, ArchiveB>>
    /\ File(<<"_", "x.o">>, 2, <<"x.o">>) \in combined

\* The index of the first flag that names the library of an archive path.
FirstNamed(path) ==
    CHOOSE i \in 1..Len(library_flags) :
        /\ library_flags[i] = Flag("-l", path[2])
        /\ \A j \in 1..(i - 1) : library_flags[j] # Flag("-l", path[2])

\* C6: resolve_library_paths returns each resolved archive once, in the order
\* in which its library name first appeared in the link flags, the archive of
\* a name being the one of the first search directory that has it.
C6_OrderOfFirstAppearance ==
    lpc = "resolved" =>
        /\ \A i, j \in 1..Len(library_paths) :
              library_paths[i] = library_paths[j] => i = j
        /\ Range(library_paths) =
              {FirstExisting(n, infer_library_dirs(library_flags), 1) :
                  n \in Range(infer_library_names(library_flags))} \ {NoPath}
        /\ \A i, j \in 1..Len(library_paths) :
              i < j => FirstNamed(library_paths[i]) < FirstNamed(library_paths[j])

\* C7: every raw link flag that is neither -L... nor -l... stands unchanged
\* among the extra flags generate_library_unix returns.
C7_PassthroughKept ==
    lpc = "resolved" =>
        \A i \in 1..Len(library_flags) :
            (~StartsWith(library_flags[i], "-L") /\ ~StartsWith(library_flags[i], "-l"))
                => library_flags[i] \in Range(extra_flags)

\* A name that is a base name with zero or more underscores before it.
Underscored(name, base) ==
    /\ Len(name) >= Len(base)
    /\ SubSeq(name, Len(name) - Len(base) + 1, Len(name)) = base
    /\ \A i \in 1..(Len(name) - Len(base)) : name[i] = "_"

\* The number of members listed of the archives 1..i.
RECURSIVE MembersListed(_)
MembersListed(i) ==
    IF i = 0 THEN 0 ELSE Cardinality(archives[i]) + MembersListed(i - 1)

\* C13: whatever archives and members the combiner processes, members whose
\* names start with underscores included, the names given in the
\* accumulation directory are pairwise distinct (no file replaces another:
\* there are as many files as members processed), each name is the member's
\* base name with zero or more underscores before it and is claimed, and the
\* set of claimed names only grows, no file once placed being replaced.
C13_NamesDistinct ==
    /\ [](/\ \A f, g \in combined : f.name = g.name => f = g
          /\ Cardinality(combined) = MembersListed(Len(archives)) - Len(pending)
          /\ \A f \in combined :
                /\ Underscored(f.name, basename(f.orig))
                /\ f.name \in object_names)
    /\ [][/\ object_names \subseteq object_names'
          /\ combined \subseteq combined']_vars

\* A member named _x.o and two members named x.o were processed: the second
\* x.o is named __x.o.
C13_Witness ==
    /\ lpc = "returned"
    /\ \E f, g, h \in combined :
          /\ f.orig = <<"_", "x.o">> /\ f.name = <<"_", "x.o">>
          /\ g.orig = <<"x.o">> /\ g.name = <<"x.o">>
          /\ h.orig = <<"x.o">> /\ h.name = <<"_", "_", "x.o">>

\* ---- Claims on the flag trimming

\* The positions of the compile tokens that an -include takes with it: a
\* position is taken when the position before it holds an -include that is
\* not taken itself.
RECURSIVE Taken(_, _)
Taken(tokens, i) ==
    /\ i > 1
    /\ tokens[i - 1] = Token("-include")
    /\ ~Taken(tokens, i - 1)

\* The positions that survive: no -include with its follower, and of equal
\* tokens only the first that survives.
KeptPositions(tokens) ==
    LET free == {i \in 1..Len(tokens) :
                    ~Taken(tokens, i) /\ tokens[i] # Token("-include")}
    IN  {i \in free : \A j \in free : j < i => tokens[j] # tokens[i]}

\* The tokens at a set of positions, in their order.
AtPositions(tokens, P) ==
    LET n == Cardinality(P)
        at == CHOOSE f \in [1..n -> P] : \A a, b \in 1..n : a < b => f[a] < f[b]
    IN  [k \in 1..n |-> tokens[at[k]]]

\* An -include at the end of the compile tokens with nothing to take.
DanglingInclude ==
    /\ cflags[Len(cflags)] = Token("-include")
    /\ ~Taken(cflags, Len(cflags))

C9_NoLinkFlagRepeatsCompileFlag ==
    fpc = "returned" => Range(out_ldflags) \cap Range(out_cflags) = {}

\* The list without its positions i and i + 1.
WithoutPair(tokens, i) ==
    SubSeq(tokens, 1, i - 1) \o SubSeq(tokens, i + 2, Len(tokens))

\* C10: a link-side -arch or -isysroot with the token after it is removed
\* from the link output when the flag is among the trimmed compile tokens
\* (the output is that of the link flags without the pair), and when it is
\* not, flag and value both stand in the link output, one after the other,
\* whatever the value is.
C10_PairDroppedIffInCompileFlags ==
    fpc = "returned" =>
        \A i \in 1..(Len(ldflags) - 1) :
            (/\ ldflags[i] \in PairFlags
             /\ \A j \in 1..Len(ldflags) : ldflags[j] \in PairFlags => j = i) =>
                IF ldflags[i] \in Range(out_cflags)
                THEN out_ldflags = trim_flags(cflags, WithoutPair(ldflags, i)).ldflags
                ELSE \E k \in 1..(Len(out_ldflags) - 1) :
                        /\ out_ldflags[k] = ldflags[i]
                        /\ out_ldflags[k + 1] = ldflags[i + 1]

\* The link tokens that the third loop scans: those left by the second loop.
Rescanned == DropPairs(ldflags, <<>>, Range(out_cflags)).flags

\* The positions where a maximal run of -Wl, tokens starts.
RunStarts(tokens) ==
    {i \in 1..Len(tokens) : IsWl(tokens[i]) /\ (i = 1 \/ ~IsWl(tokens[i - 1]))}

\* The last position of the maximal run that starts at position i.
RunEnd(tokens, i) ==
    CHOOSE j \in i..Len(tokens) :
        /\ \A k \in i..j : IsWl(tokens[k])
        /\ j = Len(tokens) \/ ~IsWl(tokens[j + 1])

\* The arguments of the tokens at positions i..j, one after the other.
RECURSIVE RunArgs(_, _, _)
RunArgs(tokens, i, j) ==
    IF i > j THEN <<>> ELSE Tail(tokens[i]) \o RunArgs(tokens, i + 1, j)

\* The scanned tokens with every maximal run of -Wl, tokens replaced, at the
\* place of its first token, by one -Wl, token that has the arguments of the
\* run in their order, and without the other tokens that are compile tokens.
RunsMerged(tokens, compile) ==
    LET P == RunStarts(tokens) \cup
             {i \in 1..Len(tokens) : ~IsWl(tokens[i]) /\ tokens[i] \notin compile}
        n == Cardinality(P)
        at == CHOOSE f \in [1..n -> P] : \A a, b \in 1..n : a < b => f[a] < f[b]
    IN  [k \in 1..n |->
            IF IsWl(tokens[at[k]])
            THEN <<"-Wl">> \o RunArgs(tokens, at[k], RunEnd(tokens, at[k]))
            ELSE tokens[at[k]]]

\* C11: in the link flags trim_flags returns, every maximal run of
\* consecutive -Wl, tokens among the tokens the merging loop scans is
\* replaced by exactly one -Wl, token with the arguments of the run in their
\* order, at the place of the first token of the run among the surviving
\* tokens; there are as many -Wl, tokens in the output as there are runs, and
\* this also when a run ends the list.
C11_WlRunsMerged ==
    fpc = "returned" =>
        /\ out_ldflags = RunsMerged(Rescanned, Range(out_cflags))
        /\ Cardinality({k \in 1..Len(out_ldflags) : IsWl(out_ldflags[k])})
              = Cardinality(RunStarts(Rescanned))

\* A run of two -Wl, tokens ends the link tokens, after a token that
\* survives, and the output ends with the one merged token.
C11_Witness ==
    /\ fpc = "returned"
    /\ Len(ldflags) >= 3
    /\ ~IsWl(ldflags[Len(ldflags) - 2])
    /\ ldflags[Len(ldflags) - 2] \in Range(out_ldflags)
    /\ ldflags[Len(ldflags) - 1] = WlToken("a")
    /\ ldflags[Len(ldflags)] = WlToken("b")
    /\ out_ldflags[Len(out_ldflags)] = <<"-Wl", "a", "b">>

\* A list that holds no token twice.
NoRepeat(tokens) ==
    \A i, j \in 1..Len(tokens) : tokens[i] = tokens[j] => i = j

\* C14: no duplicate flag survives trimming: in the link flags trim_flags
\* returns, as in the compile flags, every token stands at most once.
C14_NoDuplicateSurvives ==
    fpc = "returned" => NoRepeat(out_cflags) /\ NoRepeat(out_ldflags)

\* ---- Claims on the non-local includes

\* An include directive whose name ends no path of the closure.
NonLocal(line) ==
    /\ line.kind = "include"
    /\ \A h \in Headers : ~EndsWith(header_files[h], line.name)

\* The lines of header h that ingest_header has read so far: none of a
\* header never opened, those before the current one of a header being
\* scanned, all of a header scanned to its end.
Scanned(h) ==
    IF opens[h] = 0 THEN <<>>
    ELSE IF \E d \in 1..Len(stack) : stack[d].header = h
         THEN LET d == CHOOSE e \in 1..Len(stack) : stack[e].header = h
              IN  SubSeq(files[h], 1, stack[d].pos - 1)
         ELSE files[h]

\* How often a line stands in the texts of the headers 1..h.
RECURSIVE CountIn(_, _, _)
CountIn(texts, line, h) ==
    IF h = 0 THEN 0 ELSE Count(texts[h], line) + CountIn(texts, line, h - 1)

\* The lines that ingest_header appends: the headers' own text lines and
\* the non-local includes.
KeptLines ==
    {TextLine(h) : h \in Headers} \cup
        {line \in {IncludeLine(n) : n \in IncludeNames} : NonLocal(line)}

\* C12: a non-local include is never inlined and never deduplicated: the
\* output holds the include line as often as the headers that are ingested
\* hold it in the lines read, every time it is read and not only the first;
\* and nothing is put in its place: the output holds no other line than the
\* headers' own text lines and non-local includes, each as often as read.
\* Every header is opened at most once and read to its end.
C12_NonLocalVerbatim ==
    hpc \in {"ingest", "done"} =>
        LET texts == [h \in Headers |-> Scanned(h)]
        IN  /\ \A line \in KeptLines :
                  Count(result, line) = CountIn(texts, line, NumHeaders)
            /\ \A k \in 1..Len(result) : result[k] \in KeptLines
            /\ \A h \in Headers : opens[h] <= 1
            /\ hpc = "done" => \A h \in Headers : texts[h] = files[h]

\* Two headers are ingested, each holds the same non-local include, and the
\* output holds it more than once.
C12_Witness ==
    /\ hpc = "done"
    /\ \E g, h \in Headers :
          /\ g # h
          /\ opens[g] = 1 /\ opens[h] = 1
          /\ IncludeLine(<<"stdio.h">>) \in Range(files[g])
          /\ IncludeLine(<<"stdio.h">>) \in Range(files[h])
    /\ Count(result, IncludeLine(<<"stdio.h">>)) >= 2

\* ---- Claims on the orchestration

Artifacts == {"header", "library", "example"}

\* C3: no artifact file is written before all three generation steps have
\* succeeded, so a run that fails leaves none of the three files written.
C3_NoPartialArtifacts ==
    /\ written # {} => generated = Artifacts
    /\ kpc = "raised" => written = {}

====
